---- MODULE Spec2Model ----
(***************************************************************************)
(* Model of Predictor.predict of predict.py: one prediction is a straight   *)
(* run through validation, weight loading, conditioning set-up, seeding,    *)
(* analysis, separation, generation, waveform post-processing, file         *)
(* writing and transcoding.  A sample is a float: a rational, NaN or a      *)
(* signed infinity.  A waveform is a sequence of samples (one row; the      *)
(* batch and channel axes of the tensors are not distinguished).            *)
(***************************************************************************)
EXTENDS Integers, Sequences, FiniteSets, TLC

\* ------------------------------------------------------------------ bounds
\* longest waveform (in samples) the generator or the separator hands back
MaxLen == 2
\* number of predictions run one after another on the same Predictor
MaxPredictions == 2

\* --------------------------------------------------------- float samples
Fin(n, d) == [k |-> "fin", n |-> n, d |-> d]
NaN == [k |-> "nan", n |-> 0, d |-> 1]
PInf == [k |-> "inf", n |-> 1, d |-> 1]
NInf == [k |-> "inf", n |-> -1, d |-> 1]
Zero == Fin(0, 1)
One == Fin(1, 1)
Half == Fin(1, 2)

isnan(x) == x.k = "nan"
isinf(x) == x.k = "inf"
isfinite(x) == x.k = "fin"

IAbs(i) == IF i < 0 THEN -i ELSE i
Sgn(i) == IF i < 0 THEN -1 ELSE 1

RECURSIVE GCD(_, _)
GCD(a, b) == IF b = 0 THEN a ELSE GCD(b, a % b)

\* the rational n/d (d # 0) in lowest terms with a positive denominator
Norm(n, d) ==
    LET g == GCD(IAbs(n), IAbs(d))
    IN  Fin(Sgn(d) * (n \div g), IAbs(d) \div g)

\* IEEE division a / b
FDiv(a, b) ==
    IF isnan(a) \/ isnan(b) THEN NaN
    ELSE IF isinf(a) THEN
        IF isinf(b) THEN NaN
        ELSE IF a.n * Sgn(b.n) > 0 THEN PInf ELSE NInf
    ELSE IF isinf(b) THEN Zero
    ELSE IF b.n = 0 THEN
        IF a.n = 0 THEN NaN ELSE IF a.n > 0 THEN PInf ELSE NInf
    ELSE Norm(a.n * b.d, a.d * b.n)

\* IEEE product a * b
FMul(a, b) ==
    IF isnan(a) \/ isnan(b) THEN NaN
    ELSE IF isinf(a) \/ isinf(b) THEN
        IF a.n = 0 \/ b.n = 0 THEN NaN
        ELSE IF Sgn(a.n) * Sgn(b.n) > 0 THEN PInf ELSE NInf
    ELSE Norm(a.n * b.n, a.d * b.d)

FAbs(a) == IF isnan(a) THEN NaN ELSE IF isinf(a) THEN PInf ELSE Fin(IAbs(a.n), a.d)

\* a < b for finite a, b
FLess(a, b) == a.n * b.d < b.n * a.d

\* tensor.abs().max(): NaN if any sample is NaN, else the largest magnitude
AbsMax(w) ==
    IF \E i \in 1..Len(w) : isnan(w[i]) THEN NaN
    ELSE IF \E i \in 1..Len(w) : isinf(w[i]) THEN PInf
    ELSE LET i == CHOOSE i \in 1..Len(w) :
                    \A j \in 1..Len(w) : ~FLess(FAbs(w[i]), FAbs(w[j]))
         IN  FAbs(w[i])

\* wav[mask_nan] = 0 ; wav[mask_inf] = 1
Sanitize(w) ==
    [i \in 1..Len(w) |->
        IF isnan(w[i]) THEN Zero ELSE IF isinf(w[i]) THEN One ELSE w[i]]

\* tensor / scalar
DivAll(w, s) == [i \in 1..Len(w) |-> FDiv(w[i], s)]

\* 0.5 * (w / amp)[..., :n] * 0.5
Truncate(w, n) == SubSeq(w, 1, IF n < Len(w) THEN n ELSE Len(w))
QuarterOf(w, amp, n) ==
    LET t == Truncate(DivAll(w, amp), n)
    IN  [i \in 1..Len(t) |-> FMul(FMul(Half, t[i]), Half)]

\* ------------------------------------------------------------------ seeds
\* An integer seed is a sign and a magnitude below 2**32 held as two 16-bit
\* limbs (hi * 2^16 + lo); a raw torch.seed() draw is four limbs, most
\* significant first.
LimbBase == 2^16
NoSeed == [k |-> "none", neg |-> FALSE, hi |-> 0, lo |-> 0]
IntSeed(neg, hi, lo) == [k |-> "int", neg |-> neg, hi |-> hi, lo |-> lo]
MinusOne == IntSeed(TRUE, 0, 1)

\* `not seed`: None and the integer 0 are both falsy
Falsy(s) == s.k = "none" \/ (s.hi = 0 /\ s.lo = 0)

\* torch.seed() % 2 ** 32 - 1, i.e. (draw mod 2**32) - 1
DrawnSeed(draw) ==
    LET hi == draw[3]
        lo == draw[4]
    IN  IF lo > 0 THEN IntSeed(FALSE, hi, lo - 1)
        ELSE IF hi > 0 THEN IntSeed(FALSE, hi - 1, LimbBase - 1)
        ELSE MinusOne

\* the condition of line 255
DrawsSeed(s) == Falsy(s) \/ s = MinusOne

\* seed = <drawn> if the condition of line 255 holds, else the argument
EffectiveSeed(s, draw) == IF DrawsSeed(s) THEN DrawnSeed(draw) ELSE s

\* np.random.seed accepts exactly 0 .. 2**32 - 1
InU32(s) == s.k = "int" /\ ~s.neg /\ s.hi \in 0..(LimbBase - 1) /\ s.lo \in 0..(LimbBase - 1)

\* ------------------------------------------------------------ input sets
ModelVersions == {"stereo-chord", "stereo-chord-large", "chord", "chord-large"}
UserSeeds == {NoSeed, MinusOne, IntSeed(FALSE, 0, 0), IntSeed(FALSE, 0, 42)}
RawDraws == {<<0, 0, 0, 0>>, <<1, 0, 0, 0>>, <<0, 0, 0, 1>>, <<0, 7, 1, 0>>,
             <<LimbBase - 1, LimbBase - 1, LimbBase - 1, LimbBase - 1>>}

ParamSpace ==
    [model_version : ModelVersions,
     prompt : {"none", "text"},
     music_input : {"none", "clip"},
     multi_band_diffusion : BOOLEAN,
     large_chord_voca : BOOLEAN,
     chroma_coefficient : {1, 2},
     output_format : {"wav", "mp3"},
     return_instrumental : BOOLEAN,
     seed : UserSeeds]

\* the defaults of the Input declarations
DefaultParams ==
    [model_version |-> "stereo-chord", prompt |-> "none", music_input |-> "none",
     multi_band_diffusion |-> FALSE, large_chord_voca |-> TRUE,
     chroma_coefficient |-> 1, output_format |-> "wav",
     return_instrumental |-> FALSE, seed |-> NoSeed]

\* samples the generator and the separator may produce
GenSamples == {Zero, Half, Fin(-1, 1), NaN, PInf, NInf}
VocalSamples == {Zero, Half, Fin(-1, 1)}

\* the waveforms of 1 .. MaxLen samples over a sample set
Waves(S) == UNION {[1..n -> S] : n \in 1..MaxLen}

\* working directories a prediction may start in: a fresh one, and the one an
\* earlier mp3 prediction with the "chord" model leaves behind
InitialFiles ==
    {{}, {"musicgen-chord.th", "input_vocal.wav", "background.wav", "out.mp3"}}

\* 'stereo' in model_version
IsStereo(v) == v \in {"stereo-chord", "stereo-chord-large"}

\* number of codebooks in the checkpoint's transformer_lm configuration
n_q(v) == IF v \in {"stereo-chord", "stereo-chord-large"} THEN 8 ELSE 4

\* musicgen-{model_version}.th
Weights(v) ==
    CASE v = "stereo-chord" -> "musicgen-stereo-chord.th"
      [] v = "stereo-chord-large" -> "musicgen-stereo-chord-large.th"
      [] v = "chord" -> "musicgen-chord.th"
      [] v = "chord-large" -> "musicgen-chord-large.th"

\* the chord recogniser a freshly built conditioner holds: the large vocabulary
CheckpointLargeVoca == TRUE

\* the model load_ckpt returns: conditioning state as stored in the checkpoint
FreshModel(v) ==
    [version |-> v, large_voca |-> CheckpointLargeVoca, chroma_coefficient |-> 1,
     match_len_on_eval |-> FALSE, duration |-> 0]
NoModel == [version |-> "none", large_voca |-> TRUE, chroma_coefficient |-> 1,
            match_len_on_eval |-> FALSE, duration |-> 0]

\* --------------------------------------------------------------- the state
VARIABLES
    pc,          \* position of the running prediction in predict
    npred,       \* predictions started so far
    params,      \* arguments of the running prediction
    files,       \* files and directories present in the working directory
    model,       \* self.model
    carried,     \* self.model as the running call of predict found it
    channel,     \* local channel
    seed,        \* local seed after line 256
    log,         \* model-affecting calls of the running prediction, in order
    vocal,       \* vocal stem at the engine sample rate
    generated,   \* the waveform as the generator (or the diffusion decoder) returned it
    wav,         \* local wav
    wav_amp,     \* local wav_amp
    vocal_amp,   \* local vocal_amp
    wav_length,  \* local wav_length
    output,      \* local output: <<row 0, row 1>> once assembled
    handed,      \* buffer passed to audio_write("out", ...)
    path,        \* local path
    result,      \* the returned list
    err          \* the exception that ended the prediction

vars == <<pc, npred, params, files, model, carried, channel, seed, log, vocal, generated, wav,
          wav_amp, vocal_amp, wav_length, output, handed, path, result, err>>

audio == <<vocal, generated, wav, wav_amp, vocal_amp, wav_length, output, handed>>

\* the statement order with seeding moved ahead of the coefficient assignment
FlowSeedEarly ==
    <<"validate", "cleanup", "fetch", "load", "channel", "voca", "mbdcheck",
      "seed", "coef", "analyze", "separate", "genparams", "generate",
      "sanitize", "bgwrite", "amps", "alloc", "rows", "resanitize",
      "outwrite", "transcode", "instrumental", "return">>

\* order of the statements of predict
Flow == <<"validate", "cleanup", "fetch", "load", "channel", "voca", "mbdcheck",
          "coef", "seed", "analyze", "separate", "genparams", "generate",
          "sanitize", "bgwrite", "amps", "alloc", "rows", "resanitize",
          "outwrite", "transcode", "instrumental", "return">>

After(l) == Flow[(CHOOSE i \in 1..Len(Flow) : Flow[i] = l) + 1]

Raise(e) == pc' = "failed" /\ err' = e

Init ==
    /\ pc = "idle"
    /\ npred = 0
    /\ params = DefaultParams
    /\ files \in InitialFiles
    /\ model = NoModel
    /\ carried = NoModel
    /\ channel = 0
    /\ seed = NoSeed
    /\ log = <<>>
    /\ vocal = <<>>
    /\ generated = <<>>
    /\ wav = <<>>
    /\ wav_amp = Zero
    /\ vocal_amp = Zero
    /\ wav_length = 0
    /\ output = <<>>
    /\ handed = <<>>
    /\ path = ""
    /\ result = <<>>
    /\ err = ""


\* ---------------------------------------------------------------- actions
\* entry into predict with arguments from P: fresh locals; the working
\* directory and self.model are what the process holds at that moment
Call(P) ==
    /\ \E p \in P : params' = p
    /\ npred' = npred + 1
    /\ pc' = "validate"
    /\ channel' = 0 /\ seed' = NoSeed /\ log' = <<>>
    /\ vocal' = <<>> /\ generated' = <<>> /\ wav' = <<>> /\ wav_amp' = Zero /\ vocal_amp' = Zero
    /\ wav_length' = 0 /\ output' = <<>> /\ handed' = <<>>
    /\ path' = "" /\ result' = <<>> /\ err' = ""
    /\ carried' = model
    /\ UNCHANGED <<files, model>>

\* the first call of predict on a Predictor
Predict(P) == pc = "idle" /\ Call(P)

\* a further call of predict on the same Predictor, once the previous one
\* has returned or raised
PredictAgain(P) ==
    /\ pc \in {"returned", "failed"}
    /\ npred < MaxPredictions
    /\ Call(P)

\* lines 187-193
ValidateInputs ==
    /\ pc = "validate"
    /\ IF params.prompt = "none" THEN Raise("ValueError: Must provide prompt.")
       ELSE IF params.music_input = "none"
            THEN Raise("ValueError: Must provide music_input.")
       ELSE pc' = After(pc) /\ err' = err
    /\ UNCHANGED <<npred, params, carried, files, model, channel, seed, log, audio, path, result>>

\* lines 201-206
CleanWorkDirs ==
    /\ pc = "cleanup"
    /\ files' = files \ {"demix", "spec"}
    /\ pc' = After(pc)
    /\ UNCHANGED <<npred, params, carried, model, channel, seed, log, audio, path, result, err>>

\* lines 209-214: pget runs only when the weight file is missing; check_call
\* raises when pget exits nonzero
FetchWeights ==
    /\ pc = "fetch"
    /\ IF Weights(params.model_version) \in files
       THEN pc' = After(pc) /\ UNCHANGED <<files, log, err>>
       ELSE \E ok \in BOOLEAN :
              /\ log' = Append(log, "pget")
              /\ IF ok
                 THEN /\ files' = files \cup {Weights(params.model_version)}
                      /\ pc' = After(pc) /\ err' = err
                 ELSE Raise("CalledProcessError: pget") /\ files' = files
    /\ UNCHANGED <<npred, params, carried, model, channel, seed, audio, path, result>>

\* the checkpoint loaded only when self.model does not hold that version yet
LoadCkptCached ==
    /\ pc = "load"
    /\ model' = IF model.version = params.model_version THEN model
                ELSE [FreshModel(params.model_version) EXCEPT !.match_len_on_eval = TRUE]
    /\ log' = Append(log, "load_ckpt")
    /\ pc' = After(pc)
    /\ UNCHANGED <<npred, params, carried, files, channel, seed, audio, path, result, err>>

\* lines 215-216: self.model is rebuilt from the checkpoint on every call
LoadCkpt ==
    /\ pc = "load"
    /\ model' = [FreshModel(params.model_version) EXCEPT !.match_len_on_eval = TRUE]
    /\ log' = Append(log, "load_ckpt")
    /\ pc' = After(pc)
    /\ UNCHANGED <<npred, params, carried, files, channel, seed, audio, path, result, err>>

\* lines 218-221
SetChannel ==
    /\ pc = "channel"
    /\ channel' = IF IsStereo(params.model_version) THEN 2 ELSE 1
    /\ pc' = After(pc)
    /\ UNCHANGED <<npred, params, carried, files, model, seed, log, audio, path, result, err>>

\* lines 223-238: the chord recogniser is swapped only for the small vocabulary
SelectChordVoca ==
    /\ pc = "voca"
    /\ IF params.large_chord_voca = FALSE
       THEN /\ model' = [model EXCEPT !.large_voca = FALSE]
            /\ log' = Append(log, "voca_swap")
       ELSE UNCHANGED <<model, log>>
    /\ pc' = After(pc)
    /\ UNCHANGED <<npred, params, carried, files, channel, seed, audio, path, result, err>>

\* the rejection keyed to one stereo variant only
MbdRejectedOneVariant(p) == p.multi_band_diffusion /\ p.model_version = "stereo-chord"

\* the condition of line 240
MbdRejected(p) == p.multi_band_diffusion /\ n_q(p.model_version) = 8

\* lines 240-241
CheckMbd ==
    /\ pc = "mbdcheck"
    /\ IF MbdRejected(params)
       THEN Raise("ValueError: Multi-band Diffusion only works with non-stereo models.")
       ELSE pc' = After(pc) /\ err' = err
    /\ UNCHANGED <<npred, params, carried, files, model, channel, seed, log, audio, path, result>>

\* lines 245-253 (the lambda of line 245 is only defined here)
SetChromaCoef ==
    /\ pc = "coef"
    /\ model' = [model EXCEPT !.chroma_coefficient = params.chroma_coefficient]
    /\ log' = Append(log, "chroma_coefficient")
    /\ pc' = After(pc)
    /\ UNCHANGED <<npred, params, carried, files, channel, seed, audio, path, result, err>>

\* lines 255-258 and set_all_seeds, lines 491-497: np.random.seed raises
\* ValueError outside 0 .. 2**32 - 1
SeedAll ==
    /\ pc = "seed"
    /\ \E draw \in RawDraws : seed' = EffectiveSeed(params.seed, draw)
    /\ log' = Append(log, "set_all_seeds")
    /\ IF InU32(seed')
       THEN pc' = After(pc) /\ err' = err
       ELSE Raise("ValueError: Seed must be between 0 and 2**32 - 1")
    /\ UNCHANGED <<npred, params, carried, files, model, channel, audio, path, result>>

\* lines 261-274: structure analysis and loading of the input clip; neither
\* touches the model, the seed or the output files
Analyze ==
    /\ pc = "analyze"
    /\ log' = Append(log, "analyze")
    /\ pc' = After(pc)
    /\ UNCHANGED <<npred, params, carried, files, model, channel, seed, audio, path, result, err>>

\* lines 276-287: the vocal stem has the input's duration at the engine rate
Separate(V) ==
    /\ pc = "separate"
    /\ \E v \in V : vocal' = v
    /\ files' = files \cup {"input_vocal.wav"}
    /\ log' = Append(log, "separate_vocals")
    /\ pc' = After(pc)
    /\ UNCHANGED <<npred, params, carried, model, channel, seed, generated, wav, wav_amp, vocal_amp,
                   wav_length, output, handed, path, result, err>>

\* line 292: duration = input samples / engine rate
SetGenerationParams ==
    /\ pc = "genparams"
    /\ model' = [model EXCEPT !.duration = Len(vocal)]
    /\ log' = Append(log, "set_generation_params")
    /\ pc' = After(pc)
    /\ UNCHANGED <<npred, params, carried, files, channel, seed, audio, path, result, err>>

\* lines 294-297: with multi-band diffusion the waveform is the decoder's
Generate(W) ==
    /\ pc = "generate"
    /\ \E w \in W : wav' = w /\ generated' = w
    /\ log' = log \o <<"generate_with_chroma">> \o
                (IF params.multi_band_diffusion THEN <<"tokens_to_wav">> ELSE <<>>)
    /\ pc' = After(pc)
    /\ UNCHANGED <<npred, params, carried, files, model, channel, seed, vocal, wav_amp,
                   vocal_amp, wav_length, output, handed, path, result, err>>

\* lines 299-306: the division by the peak is unconditional
FirstPass ==
    /\ pc = "sanitize"
    /\ wav_amp' = AbsMax(Sanitize(wav))
    /\ wav' = DivAll(Sanitize(wav), wav_amp')
    /\ pc' = After(pc)
    /\ UNCHANGED <<npred, params, carried, files, model, channel, seed, log, vocal, generated,
                   vocal_amp, wav_length, output, handed, path, result, err>>

\* lines 309-316
WriteBackground ==
    /\ pc = "bgwrite"
    /\ files' = files \cup {"background.wav"}
    /\ wav_length' = Len(wav)
    /\ pc' = After(pc)
    /\ UNCHANGED <<npred, params, carried, model, channel, seed, log, vocal, generated, wav, wav_amp,
                   vocal_amp, output, handed, path, result, err>>

\* lines 376-381
ScaleWav ==
    /\ pc = "amps"
    /\ wav_amp' = AbsMax(wav)
    /\ vocal_amp' = AbsMax(vocal)
    /\ wav' = QuarterOf(wav, wav_amp', wav_length)
    /\ pc' = After(pc)
    /\ UNCHANGED <<npred, params, carried, files, model, channel, seed, log, vocal, generated,
                   wav_length, output, handed, path, result, err>>

\* line 383: torch.zeros(2, wav.size()) passes a Size where an int is
\* expected, which the tensor library rejects with TypeError.  The other
\* outcome kept here is the two-row buffer that lines 384-385 assign into.
AllocOutput ==
    /\ pc = "alloc"
    /\ \/ Raise("TypeError: zeros() received an invalid combination of arguments")
          /\ output' = output
       \/ /\ output' = <<[i \in 1..Len(wav) |-> Zero], [i \in 1..Len(wav) |-> Zero]>>
          /\ pc' = After(pc) /\ err' = err
    /\ UNCHANGED <<npred, params, carried, files, model, channel, seed, log, vocal, generated, wav,
                   wav_amp, vocal_amp, wav_length, handed, path, result>>

\* the value assigned to output[0, :] at line 384
Row0(w, amp, n) == QuarterOf(w, amp, n)
\* the value assigned to output[1, :] at line 385
Row1(v, amp, n) == QuarterOf(v, amp, n)

\* lines 384-385: a row takes a value of its own length, or a single sample
\* broadcast; any other length is a shape mismatch
AssignRows ==
    /\ pc = "rows"
    /\ LET n == Len(output[1])
           r0 == Row0(wav, wav_amp, wav_length)
           r1 == Row1(vocal, vocal_amp, wav_length)
           Fit(r) == IF Len(r) = n THEN r ELSE [i \in 1..n |-> r[1]]
       IN  IF Len(r0) \in {1, n} /\ Len(r1) \in {1, n}
           THEN /\ output' = <<Fit(r0), Fit(r1)>>
                /\ pc' = After(pc) /\ err' = err
           ELSE Raise("RuntimeError: shape mismatch") /\ output' = output
    /\ UNCHANGED <<npred, params, carried, files, model, channel, seed, log, vocal, generated, wav,
                   wav_amp, vocal_amp, wav_length, handed, path, result>>

\* lines 388-396: the second pass works on wav, not on output
SecondPass ==
    /\ pc = "resanitize"
    /\ wav_amp' = AbsMax(Sanitize(wav))
    /\ wav' = IF wav_amp' # Zero THEN DivAll(Sanitize(wav), wav_amp') ELSE Sanitize(wav)
    /\ pc' = After(pc)
    /\ UNCHANGED <<npred, params, carried, files, model, channel, seed, log, vocal, generated,
                   vocal_amp, wav_length, output, handed, path, result, err>>

\* lines 398-405
WriteOut ==
    /\ pc = "outwrite"
    /\ handed' = output
    /\ files' = files \cup {"out.wav"}
    /\ pc' = After(pc)
    /\ UNCHANGED <<npred, params, carried, model, channel, seed, log, vocal, generated, wav, wav_amp,
                   vocal_amp, wav_length, output, path, result, err>>

\* subprocess.call(["ffmpeg", "-i", src, dst]): the exit status is discarded;
\* dst appears only when ffmpeg succeeds, which needs src to exist
Ffmpeg(fs, src, dst, ok) == IF ok /\ src \in fs THEN fs \cup {dst} ELSE fs

\* lines 407-417
TranscodeMain ==
    /\ pc = "transcode"
    /\ IF params.output_format = "mp3"
       THEN /\ \E ok \in BOOLEAN :
                 files' = Ffmpeg(files \ {"out.mp3"}, "out.wav", "out.mp3", ok) \ {"out.wav"}
            /\ path' = "out.mp3"
       ELSE /\ path' = "out.wav"
            /\ files' = files
    /\ result' = <<path'>>
    /\ pc' = After(pc)
    /\ UNCHANGED <<npred, params, carried, model, channel, seed, log, audio, err>>

\* lines 419-431: line 424 tests and removes mp3_path, the main mix;
\* os.remove raises FileNotFoundError on a missing file
Instrumental ==
    /\ pc = "instrumental"
    /\ IF ~params.return_instrumental
       THEN pc' = After(pc) /\ UNCHANGED <<files, result, err>>
       ELSE IF params.output_format = "mp3"
       THEN \E ok \in BOOLEAN :
              LET fs == Ffmpeg(files \ {"out.mp3"}, "background_synced.wav",
                               "background_synced.mp3", ok)
              IN  IF "background_synced.wav" \in fs
                  THEN /\ files' = fs \ {"background_synced.wav"}
                       /\ result' = Append(result, "background_synced.mp3")
                       /\ pc' = After(pc) /\ err' = err
                  ELSE /\ Raise("FileNotFoundError: background_synced.wav")
                       /\ files' = fs /\ result' = result
       ELSE /\ result' = Append(result, "background_synced.wav")
            /\ pc' = After(pc) /\ UNCHANGED <<files, err>>
    /\ UNCHANGED <<npred, params, carried, model, channel, seed, log, audio, path>>

\* line 433
Return ==
    /\ pc = "return"
    /\ pc' = "returned"
    /\ UNCHANGED <<npred, params, carried, files, model, channel, seed, log, audio, path, result, err>>

\* ---------------------------------------------------------- specifications
\* one call of predict over every parameter combination, short waveforms
CtlWaves == Waves({Half})

Next ==
    \/ Predict(ParamSpace)
    \/ ValidateInputs
    \/ CleanWorkDirs
    \/ FetchWeights
    \/ LoadCkpt
    \/ SetChannel
    \/ SelectChordVoca
    \/ CheckMbd
    \/ SetChromaCoef
    \/ SeedAll
    \/ Analyze
    \/ Separate(CtlWaves)
    \/ SetGenerationParams
    \/ Generate(CtlWaves)
    \/ FirstPass
    \/ WriteBackground
    \/ ScaleWav
    \/ AllocOutput
    \/ AssignRows
    \/ SecondPass
    \/ WriteOut
    \/ TranscodeMain
    \/ Instrumental
    \/ Return

Spec == Init /\ [][Next]_vars

\* one call of predict with valid mono parameters over every waveform and stem
AudioParams ==
    {p \in ParamSpace :
        /\ p.model_version = "chord" /\ p.prompt = "text" /\ p.music_input = "clip"
        /\ p.large_chord_voca /\ p.chroma_coefficient = 1
        /\ ~p.return_instrumental /\ p.seed = IntSeed(FALSE, 0, 42)}

NextAudio ==
    \/ Predict(AudioParams)
    \/ ValidateInputs
    \/ CleanWorkDirs
    \/ FetchWeights
    \/ LoadCkpt
    \/ SetChannel
    \/ SelectChordVoca
    \/ CheckMbd
    \/ SetChromaCoef
    \/ SeedAll
    \/ Analyze
    \/ Separate(Waves(VocalSamples))
    \/ SetGenerationParams
    \/ Generate(Waves(GenSamples))
    \/ FirstPass
    \/ WriteBackground
    \/ ScaleWav
    \/ AllocOutput
    \/ AssignRows
    \/ SecondPass
    \/ WriteOut
    \/ TranscodeMain
    \/ Instrumental
    \/ Return

SpecAudio == Init /\ [][NextAudio]_vars

\* up to MaxPredictions calls of predict one after another on the same
\* Predictor, over the parameters that select the model and its conditioning
SeqParams ==
    {p \in ParamSpace :
        /\ p.model_version \in {"chord", "stereo-chord"}
        /\ p.prompt = "text" /\ p.music_input = "clip"
        /\ ~p.multi_band_diffusion /\ p.output_format = "wav"
        /\ ~p.return_instrumental /\ p.seed = IntSeed(FALSE, 0, 42)}

NextSeq ==
    \/ Predict(SeqParams)
    \/ PredictAgain(SeqParams)
    \/ ValidateInputs
    \/ CleanWorkDirs
    \/ FetchWeights
    \/ LoadCkpt
    \/ SetChannel
    \/ SelectChordVoca
    \/ CheckMbd
    \/ SetChromaCoef
    \/ SeedAll
    \/ Analyze
    \/ Separate(CtlWaves)
    \/ SetGenerationParams
    \/ Generate(CtlWaves)
    \/ FirstPass
    \/ WriteBackground
    \/ ScaleWav
    \/ AllocOutput
    \/ AssignRows
    \/ SecondPass
    \/ WriteOut
    \/ TranscodeMain
    \/ Instrumental
    \/ Return

SpecSeq == Init /\ [][NextSeq]_vars

\* ------------------------------------------------------------ properties
MainMix(fmt) == IF fmt = "mp3" THEN "out.mp3" ELSE "out.wav"
InstrumentalFile(fmt) ==
    IF fmt = "mp3" THEN "background_synced.mp3" ELSE "background_synced.wav"

\* positions i of the log holding event e
At(e) == {i \in 1..Len(log) : log[i] = e}
Happened(e) == At(e) # {}

C4_MbdStereoNeverGenerates ==
    (params.multi_band_diffusion /\ IsStereo(params.model_version)) =>
        /\ ~Happened("generate_with_chroma")
        /\ ~Happened("tokens_to_wav")
        /\ pc \in {"validate", "cleanup", "fetch", "load", "channel", "voca",
                   "mbdcheck", "failed"}

\* C4 witness: a stereo prediction with multi-band diffusion, whose weights
\* were loaded, has been rejected by the check of line 240.
C4_Witness ==
    /\ pc = "failed"
    /\ params.multi_band_diffusion /\ params.model_version = "stereo-chord-large"
    /\ Happened("load_ckpt")
    /\ err = "ValueError: Multi-band Diffusion only works with non-stereo models."

ValidationErrors ==
    {"ValueError: Must provide prompt.", "ValueError: Must provide music_input.",
     "ValueError: Multi-band Diffusion only works with non-stereo models."}

\* C5: a prediction that ends in an input validation error has, up to then,
\* downloaded no weights, loaded no checkpoint and changed nothing in the
\* model's conditioning state.
C5_ValidationBeforeModelWork ==
    (pc = "failed" /\ err \in ValidationErrors) =>
        /\ ~Happened("pget")
        /\ ~Happened("load_ckpt")
        /\ ~Happened("voca_swap")
        /\ ~Happened("chroma_coefficient")

\* C6: once set_all_seeds has been called, the seed it received is the
\* user-supplied one whenever that is an integer other than -1 (0 included).
C6_SuppliedSeedUsedVerbatim ==
    (Happened("set_all_seeds") /\ params.seed.k = "int" /\ params.seed # MinusOne)
        => seed = params.seed

\* C7: whenever the seed was drawn (none or -1 supplied), the seed handed to
\* set_all_seeds lies in 0 .. 2**32 - 1.
C7_DrawnSeedIsU32 ==
    (Happened("set_all_seeds") /\ params.seed \in {NoSeed, MinusOne}) => InU32(seed)

PeakNormalized(w) == DivAll(w, AbsMax(w))
Quarter(w) == [i \in 1..Len(w) |-> FMul(Fin(1, 4), w[i])]
NonZero(w) == \E i \in 1..Len(w) : w[i] # Zero

ConditioningSteps == {"load_ckpt", "voca_swap", "chroma_coefficient"}
SamplingSteps == {"generate_with_chroma", "tokens_to_wav"}

\* C10 as stated: no model configuration step (set_generation_params
\* included) runs after set_all_seeds, and sampling only runs after it.
C10_NoConfigurationAfterSeeding ==
    /\ \A i \in At("set_all_seeds") : \A j \in (i + 1)..Len(log) :
          log[j] \notin ConditioningSteps \cup {"set_generation_params"}
    /\ \A j \in 1..Len(log) : log[j] \in SamplingSteps =>
          \E i \in At("set_all_seeds") : i < j

\* C10 amended: set_all_seeds runs after the chord vocabulary swap and the
\* chroma coefficient assignment and before any sampling; the only model
\* configuration after it is set_generation_params, which runs before
\* generate_with_chroma.
C10_SeedAfterConditioningBeforeSampling ==
    /\ \A i \in At("set_all_seeds") : \A j \in (i + 1)..Len(log) :
          log[j] \notin ConditioningSteps
    /\ \A j \in 1..Len(log) : log[j] \in SamplingSteps =>
          /\ \E i \in At("set_all_seeds") : i < j
          /\ \E k \in At("set_generation_params") : k < j
    /\ \A k \in At("set_generation_params") :
          \E i \in At("set_all_seeds") : i < k

\* C10 witness: a small-vocabulary prediction has seeded and then sampled.
C10_Witness ==
    /\ Happened("voca_swap") /\ Happened("chroma_coefficient")
    /\ Happened("set_all_seeds") /\ Happened("generate_with_chroma")

\* C11: in a sequence of predictions on one Predictor, whenever a prediction
\* is at or past its generation, the chord vocabulary mode and the chroma
\* coefficient of self.model are the ones its own large_chord_voca and
\* chroma_coefficient parameters ask for, whatever earlier predictions left.
C11_ConditioningIsOwnParameters ==
    (pc = "generate" \/ Happened("generate_with_chroma")) =>
        /\ model.version = params.model_version
        /\ model.large_voca = params.large_chord_voca
        /\ model.chroma_coefficient = params.chroma_coefficient

\* C11 witness: a later prediction asking for the large vocabulary has
\* generated on a Predictor whose previous prediction, with the same model
\* version, left the small vocabulary and another coefficient behind.
C11_Witness ==
    /\ npred >= 2
    /\ Happened("generate_with_chroma")
    /\ params.large_chord_voca
    /\ carried.version = params.model_version
    /\ ~carried.large_voca
    /\ carried.chroma_coefficient # params.chroma_coefficient

====
